---- MODULE Spec2Model ----
(***************************************************************************)
(* The iOS backend adapters of the toga text widgets:                      *)
(*   toga_iOS/widgets/textinput.py          TogaTextField / TextInput      *)
(*   toga_iOS/widgets/multilinetextinput.py TogaMultilineTextView /        *)
(*                                          MultilineTextInput             *)
(* One behaviour follows one adapter instance from the end of create().   *)
(* Every adapter method and every delegate callback is one action; `last` *)
(* records which operation ran, its argument and its outcome, and `calls` *)
(* the calls that operation made on the interface and on the native view. *)
(***************************************************************************)
EXTENDS Integers, Sequences, FiniteSets, TLC

VARIABLES
    adapter,            \* which widget class this instance is
    native,             \* self.native: the UITextField / UITextView
    error_label,        \* self.error_label (TextInput only)
    placeholder_label,  \* self.placeholder_label (MultilineTextInput only)
    intrinsic,          \* self.interface.intrinsic
    last,               \* the operation that ran last and its outcome
    calls,              \* the outbound calls the last operation made
    error_set,          \* observer: set_error called, no clear_error since
    events,             \* observer: operations that ran so far, in order
    callbacks           \* observer: interface callbacks received so far

vars == <<adapter, native, error_label, placeholder_label, intrinsic,
          last, calls, error_set, events, callbacks>>

widget == <<adapter, native, error_label, placeholder_label, intrinsic>>

(***************************************************************************)
(* Bounds                                                                  *)
(***************************************************************************)
\* longest text value held by the native control
MaxLen == 2
\* longest recorded sequence of native events (observer of SpecEvents)
MaxTrace == 4

(***************************************************************************)
(* Python values and strings.  A string is a sequence of characters.       *)
(***************************************************************************)
Chars == {"a", "b"}

Strings(n) == UNION {[1..k -> Chars] : k \in 0..n}

Texts == Strings(MaxLen)

\* sample placeholder texts and error messages
Placeholders == {<<>>, <<"p">>}

Messages == {<<>>, <<"e">>}

PyStr(s) == [t |-> "str", s |-> s, b |-> FALSE]

PyBool(b) == [t |-> "bool", s |-> <<>>, b |-> b]

PyInt == [t |-> "int", s |-> <<>>, b |-> FALSE]

PyNone == [t |-> "NoneType", s |-> <<>>, b |-> FALSE]

\* any other Python object (a colour, a font), known by its name
PyObject(name) == [t |-> "object", s |-> <<name>>, b |-> FALSE]

isinstance(value, type) == value.t = type

UpperCase == <<"A", "B", "C", "D", "E", "F", "G", "H", "I", "J", "K", "L", "M",
               "N", "O", "P", "Q", "R", "S", "T", "U", "V", "W", "X", "Y", "Z">>

LowerCase == <<"a", "b", "c", "d", "e", "f", "g", "h", "i", "j", "k", "l", "m",
               "n", "o", "p", "q", "r", "s", "t", "u", "v", "w", "x", "y", "z">>

\* the lower-case letter of each upper-case letter
LowerChar ==
    [c \in {UpperCase[i] : i \in DOMAIN UpperCase} |->
        LowerCase[CHOOSE i \in DOMAIN UpperCase : UpperCase[i] = c]]

\* str.lower(): upper-case letters are replaced, every other character kept
lower(s) ==
    [i \in 1..Len(s) |->
        IF s[i] \in DOMAIN LowerChar THEN LowerChar[s[i]] ELSE s[i]]

(***************************************************************************)
(* Objective-C strings held by the native objects.  Assigning a Python str *)
(* stores an NSString; reading gives an NSString or nil, and str() turns   *)
(* it back into a Python str ("None" for nil).                             *)
(***************************************************************************)
nil == [t |-> "nil", s |-> <<>>]

NSString(s) == [t |-> "NSString", s |-> s]

\* str(x) of a value read from a native property
str(x) == IF x.t = "nil" THEN <<"N", "o", "n", "e">> ELSE x.s

\* len(x) of an NSString read from a native property
len(x) == Len(x.s)

\* truth value of a native string: nil and "" are false
truthy(x) == x.t # "nil" /\ Len(x.s) > 0

\* UITextField.placeholder: UIKit stores "" as nil
UIKitPlaceholder(value) == IF Len(value) = 0 THEN nil ELSE NSString(value)

(***************************************************************************)
(* NSRange(location, length): both fields are NSUInteger.  A Python int n  *)
(* is stored modulo 2^64; the stored location is wrap * 2^64 + n, with     *)
(* wrap = 1 exactly when n is negative.                                    *)
(***************************************************************************)
NSRange(location, length) ==
    [wrap |-> IF location < 0 THEN 1 ELSE 0, location |-> location,
     length |-> length]

(***************************************************************************)
(* toga.constants alignments and their NSTextAlignment values.             *)
(***************************************************************************)
LEFT == <<"l", "e", "f", "t">>

RIGHT == <<"r", "i", "g", "h", "t">>

CENTER == <<"c", "e", "n", "t", "e", "r">>

JUSTIFY == <<"j", "u", "s", "t", "i", "f", "y">>

Alignments == {LEFT, RIGHT, CENTER, JUSTIFY}

NSTextAlignment(value) ==
    CASE value = LEFT -> "NSTextAlignmentLeft"
      [] value = RIGHT -> "NSTextAlignmentRight"
      [] value = CENTER -> "NSTextAlignmentCenter"
      [] value = JUSTIFY -> "NSTextAlignmentJustified"


\* toga_iOS.colors.native_color: the UIColor of an abstract colour
native_color(color) == <<"UIColor", color>>

Colors == {"rgb"}

Fonts == {"font"}

(***************************************************************************)
(* Arguments the interface may hand to the behaviour-flag setters.        *)
(***************************************************************************)
BoolArgs ==
    {PyBool(TRUE), PyBool(FALSE), PyInt, PyNone, PyStr(<<"y", "e", "s">>)}

CapArgs ==
    {PyStr(<<"n", "o", "n", "e">>), PyStr(<<"N", "O", "N", "E">>),
     PyStr(<<"W", "o", "r", "d", "s">>),
     PyStr(<<"s", "e", "n", "t", "e", "n", "c", "e", "s">>),
     PyStr(<<"A", "l", "l", "C", "h", "a", "r", "a", "c", "t", "e", "r", "s">>),
     PyStr(<<"a", "l", "l">>), PyStr(<<>>),
     PyBool(TRUE), PyNone}

PredictionArgs ==
    {PyStr(<<"y", "e", "s">>), PyStr(<<"N", "o">>),
     PyStr(<<"D", "E", "F", "A", "U", "L", "T">>),
     PyStr(<<"o", "n">>), PyBool(FALSE), PyNone}

(***************************************************************************)
(* Outcome of an operation.                                                *)
(***************************************************************************)
Returns(op, arg, ret) ==
    last' = [op |-> op, arg |-> arg, raised |-> "", ret |-> ret]

Raises(op, arg, exc) ==
    last' = [op |-> op, arg |-> arg, raised |-> exc, ret |-> PyNone]

InterfaceCall(name) == [on |-> "interface", name |-> name]

NativeScroll(range) ==
    [on |-> "native", name |-> "scrollRangeToVisible", range |-> range]

NoLabel == [absent |-> TRUE]

(***************************************************************************)
(* State right after create().  UIKit's own defaults: empty text, natural *)
(* alignment, sentence capitalisation, default inline prediction, labels  *)
(* not hidden, nothing focused.                                            *)
(***************************************************************************)
TextInput_create ==
    /\ adapter = "TextInput"
    /\ native = [text |-> NSString(<<>>), placeholder |-> nil,
                 enabled |-> TRUE,
                 textAlignment |-> "NSTextAlignmentNatural",
                 textColor |-> "default", font |-> "default",
                 autocorrectionType |-> "Yes", spellCheckingType |-> "Yes",
                 autocapitalizationType |-> "Sentences",
                 inlinePredictionType |-> "Default",
                 isFirstResponder |-> FALSE]
    /\ error_label = [hidden |-> TRUE,
                      textAlignment |-> "NSTextAlignmentNatural"]
    /\ placeholder_label = NoLabel

MultilineTextInput_create ==
    /\ adapter = "MultilineTextInput"
    /\ native = [text |-> NSString(<<>>), editable |-> TRUE,
                 textAlignment |-> "NSTextAlignmentNatural",
                 textColor |-> "default", font |-> "default",
                 autocorrectionType |-> "Yes", spellCheckingType |-> "Yes",
                 autocapitalizationType |-> "Sentences",
                 inlinePredictionType |-> "Default",
                 isFirstResponder |-> FALSE]
    /\ placeholder_label = [hidden |-> FALSE, text |-> nil,
                            textColor |-> "default", font |-> "default"]
    /\ error_label = NoLabel

Created ==
    /\ intrinsic = [width |-> "unset", height |-> "unset"]
    /\ last = [op |-> "create", arg |-> PyNone, raised |-> "", ret |-> PyNone]
    /\ calls = <<>>
    /\ error_set = FALSE
    /\ events = <<>>
    /\ callbacks = <<>>

InitTextInput == TextInput_create /\ Created

InitMultiline == MultilineTextInput_create /\ Created

Init == InitTextInput \/ InitMultiline

\* Widget.has_focus of toga_iOS/widgets/base.py
has_focus == native.isFirstResponder

(***************************************************************************)
(* TogaTextField: the delegate callbacks of the single-line control.      *)
(* UIKit delivers begin-editing when the field becomes first responder,   *)
(* the editing-changed control event after the user changed the text, and *)
(* end-editing when it resigns.                                            *)
(***************************************************************************)
textFieldDidBeginEditing_ ==
    /\ adapter = "TextInput"
    /\ native.enabled /\ ~native.isFirstResponder
    /\ native' = [native EXCEPT !.isFirstResponder = TRUE]
    /\ calls' = <<InterfaceCall("on_gain_focus")>>
    /\ Returns("textFieldDidBeginEditing_", PyNone, PyNone)
    /\ UNCHANGED <<adapter, error_label, placeholder_label, intrinsic>>

textFieldDidChange_(typed) ==
    /\ adapter = "TextInput"
    /\ native.isFirstResponder /\ NSString(typed) # native.text
    /\ native' = [native EXCEPT !.text = NSString(typed)]
    /\ calls' = <<InterfaceCall("_value_changed")>>
    /\ Returns("textFieldDidChange_", PyNone, PyNone)
    /\ UNCHANGED <<adapter, error_label, placeholder_label, intrinsic>>

\* end-editing as it would be if it forwarded to the focus-gain callback
textFieldDidEndEditing_as_gain ==
    /\ adapter = "TextInput"
    /\ native.isFirstResponder
    /\ native' = [native EXCEPT !.isFirstResponder = FALSE]
    /\ calls' = <<InterfaceCall("on_gain_focus")>>
    /\ Returns("textFieldDidEndEditing_", PyNone, PyNone)
    /\ UNCHANGED <<adapter, error_label, placeholder_label, intrinsic>>

textFieldDidEndEditing_ ==
    /\ adapter = "TextInput"
    /\ native.isFirstResponder
    /\ native' = [native EXCEPT !.isFirstResponder = FALSE]
    /\ calls' = <<InterfaceCall("on_lose_focus")>>
    /\ Returns("textFieldDidEndEditing_", PyNone, PyNone)
    /\ UNCHANGED <<adapter, error_label, placeholder_label, intrinsic>>

textFieldShouldReturn_ ==
    /\ adapter = "TextInput"
    /\ native.isFirstResponder
    /\ calls' = <<InterfaceCall("on_confirm")>>
    /\ Returns("textFieldShouldReturn_", PyNone, PyBool(TRUE))
    /\ UNCHANGED widget


(***************************************************************************)
(* TextInput: the single-line adapter.                                     *)
(***************************************************************************)
TextInput_get_readonly ==
    /\ adapter = "TextInput"
    /\ calls' = <<>>
    /\ Returns("get_readonly", PyNone, PyBool(~native.enabled))
    /\ UNCHANGED widget

TextInput_set_readonly(value) ==
    /\ adapter = "TextInput"
    /\ native' = [native EXCEPT !.enabled = ~value]
    /\ calls' = <<>>
    /\ Returns("set_readonly", PyBool(value), PyNone)
    /\ UNCHANGED <<adapter, error_label, placeholder_label, intrinsic>>

TextInput_get_placeholder ==
    /\ adapter = "TextInput"
    /\ calls' = <<>>
    /\ Returns("get_placeholder", PyNone,
               PyStr(IF truthy(native.placeholder)
                     THEN str(native.placeholder) ELSE <<>>))
    /\ UNCHANGED widget

TextInput_set_placeholder(value) ==
    /\ adapter = "TextInput"
    /\ native' = [native EXCEPT !.placeholder = UIKitPlaceholder(value)]
    /\ calls' = <<>>
    /\ Returns("set_placeholder", PyStr(value), PyNone)
    /\ UNCHANGED <<adapter, error_label, placeholder_label, intrinsic>>

TextInput_get_value ==
    /\ adapter = "TextInput"
    /\ calls' = <<>>
    /\ Returns("get_value", PyNone, PyStr(str(native.text)))
    /\ UNCHANGED widget

\* set_value as it would be without the change notification
TextInput_set_value_silent(value) ==
    /\ adapter = "TextInput"
    /\ native' = [native EXCEPT !.text = NSString(value)]
    /\ calls' = <<>>
    /\ Returns("set_value", PyStr(value), PyNone)
    /\ UNCHANGED <<adapter, error_label, placeholder_label, intrinsic>>

TextInput_set_value(value) ==
    /\ adapter = "TextInput"
    /\ native' = [native EXCEPT !.text = NSString(value)]
    /\ calls' = <<InterfaceCall("_value_changed")>>
    /\ Returns("set_value", PyStr(value), PyNone)
    /\ UNCHANGED <<adapter, error_label, placeholder_label, intrinsic>>

\* set_text_align as it would be with the indicator on the side of the text
TextInput_set_text_align_same_side(value) ==
    /\ adapter = "TextInput"
    /\ native' = [native EXCEPT !.textAlignment = NSTextAlignment(value)]
    /\ error_label' =
         [error_label EXCEPT !.textAlignment =
            IF value = RIGHT THEN NSTextAlignment(RIGHT)
            ELSE NSTextAlignment(LEFT)]
    /\ calls' = <<>>
    /\ Returns("set_text_align", PyStr(value), PyNone)
    /\ UNCHANGED <<adapter, placeholder_label, intrinsic>>

TextInput_set_text_align(value) ==
    /\ adapter = "TextInput"
    /\ native' = [native EXCEPT !.textAlignment = NSTextAlignment(value)]
    /\ error_label' =
         [error_label EXCEPT !.textAlignment =
            IF value = RIGHT THEN NSTextAlignment(LEFT)
            ELSE NSTextAlignment(RIGHT)]
    /\ calls' = <<>>
    /\ Returns("set_text_align", PyStr(value), PyNone)
    /\ UNCHANGED <<adapter, placeholder_label, intrinsic>>

TextInput_set_color(color) ==
    /\ adapter = "TextInput"
    /\ native' = [native EXCEPT !.textColor = native_color(color)]
    /\ calls' = <<>>
    /\ Returns("set_color", PyObject(color), PyNone)
    /\ UNCHANGED <<adapter, error_label, placeholder_label, intrinsic>>

TextInput_set_font(font) ==
    /\ adapter = "TextInput"
    /\ native' = [native EXCEPT !.font = font]
    /\ calls' = <<>>
    /\ Returns("set_font", PyObject(font), PyNone)
    /\ UNCHANGED <<adapter, error_label, placeholder_label, intrinsic>>

TextInput_rehint ==
    /\ adapter = "TextInput"
    /\ intrinsic' = [width |-> "at_least(_MIN_WIDTH)",
                     height |-> "fitting_size.height"]
    /\ calls' = <<>>
    /\ Returns("rehint", PyNone, PyNone)
    /\ UNCHANGED <<adapter, native, error_label, placeholder_label>>

\* set_error as it would be if an empty message counted as no error
TextInput_set_error_if_message(error_message) ==
    /\ adapter = "TextInput"
    /\ error_label' = [error_label EXCEPT !.hidden = Len(error_message) = 0]
    /\ calls' = <<>>
    /\ Returns("set_error", PyStr(error_message), PyNone)
    /\ UNCHANGED <<adapter, native, placeholder_label, intrinsic>>

TextInput_set_error(error_message) ==
    /\ adapter = "TextInput"
    /\ error_label' = [error_label EXCEPT !.hidden = FALSE]
    /\ calls' = <<>>
    /\ Returns("set_error", PyStr(error_message), PyNone)
    /\ UNCHANGED <<adapter, native, placeholder_label, intrinsic>>

TextInput_clear_error ==
    /\ adapter = "TextInput"
    /\ error_label' = [error_label EXCEPT !.hidden = TRUE]
    /\ calls' = <<>>
    /\ Returns("clear_error", PyNone, PyNone)
    /\ UNCHANGED <<adapter, native, placeholder_label, intrinsic>>

TextInput_is_valid ==
    /\ adapter = "TextInput"
    /\ calls' = <<>>
    /\ Returns("is_valid", PyNone, PyBool(error_label.hidden))
    /\ UNCHANGED widget

TextInput_set_autocorrect(value) ==
    /\ adapter = "TextInput"
    /\ calls' = <<>>
    /\ IF isinstance(value, "bool")
       THEN /\ IF value.b
               THEN native' = [native EXCEPT !.autocorrectionType = "Yes"]
               ELSE native' = [native EXCEPT !.autocorrectionType = "No"]
            /\ Returns("set_autocorrect", value, PyNone)
       ELSE /\ Raises("set_autocorrect", value, "ValueError")
            /\ UNCHANGED native
    /\ UNCHANGED <<adapter, error_label, placeholder_label, intrinsic>>

TextInput_get_autocorrect ==
    /\ adapter = "TextInput"
    /\ calls' = <<>>
    /\ IF native.autocorrectionType = "Yes"
       THEN Returns("get_autocorrect", PyNone, PyBool(TRUE))
       ELSE Returns("get_autocorrect", PyNone, PyBool(FALSE))
    /\ UNCHANGED widget

TextInput_set_spellchecker(value) ==
    /\ adapter = "TextInput"
    /\ calls' = <<>>
    /\ IF isinstance(value, "bool")
       THEN /\ IF value.b
               THEN native' = [native EXCEPT !.spellCheckingType = "Yes"]
               ELSE native' = [native EXCEPT !.spellCheckingType = "No"]
            /\ Returns("set_spellchecker", value, PyNone)
       ELSE /\ Raises("set_spellchecker", value, "ValueError")
            /\ UNCHANGED native
    /\ UNCHANGED <<adapter, error_label, placeholder_label, intrinsic>>

TextInput_get_spellchecker ==
    /\ adapter = "TextInput"
    /\ calls' = <<>>
    /\ IF native.spellCheckingType = "Yes"
       THEN Returns("get_spellchecker", PyNone, PyBool(TRUE))
       ELSE Returns("get_spellchecker", PyNone, PyBool(FALSE))
    /\ UNCHANGED widget

\* set_autocapitalization_type as it would be comparing without lower()
TextInput_set_autocapitalization_type_exact(value) ==
    /\ adapter = "TextInput"
    /\ calls' = <<>>
    /\ IF isinstance(value, "str")
       THEN IF value.s = <<"n", "o", "n", "e">>
            THEN /\ native' = [native EXCEPT !.autocapitalizationType = "none"]
                 /\ Returns("set_autocapitalization_type", value, PyNone)
            ELSE IF value.s = <<"w", "o", "r", "d", "s">>
            THEN /\ native' = [native EXCEPT !.autocapitalizationType = "Words"]
                 /\ Returns("set_autocapitalization_type", value, PyNone)
            ELSE IF value.s = <<"s", "e", "n", "t", "e", "n", "c", "e", "s">>
            THEN /\ native' =
                      [native EXCEPT !.autocapitalizationType = "Sentences"]
                 /\ Returns("set_autocapitalization_type", value, PyNone)
            ELSE IF value.s =
                      <<"a", "l", "l", "c", "h", "a", "r", "a", "c", "t", "e",
                        "r", "s">>
            THEN /\ native' =
                      [native EXCEPT !.autocapitalizationType = "AllCharacters"]
                 /\ Returns("set_autocapitalization_type", value, PyNone)
            ELSE /\ Raises("set_autocapitalization_type", value, "ValueError")
                 /\ UNCHANGED native
       ELSE /\ Raises("set_autocapitalization_type", value, "ValueError")
            /\ UNCHANGED native
    /\ UNCHANGED <<adapter, error_label, placeholder_label, intrinsic>>

TextInput_set_autocapitalization_type(value) ==
    /\ adapter = "TextInput"
    /\ calls' = <<>>
    /\ IF isinstance(value, "str")
       THEN IF lower(value.s) = <<"n", "o", "n", "e">>
            THEN /\ native' = [native EXCEPT !.autocapitalizationType = "none"]
                 /\ Returns("set_autocapitalization_type", value, PyNone)
            ELSE IF lower(value.s) = <<"w", "o", "r", "d", "s">>
            THEN /\ native' = [native EXCEPT !.autocapitalizationType = "Words"]
                 /\ Returns("set_autocapitalization_type", value, PyNone)
            ELSE IF lower(value.s) =
                      <<"s", "e", "n", "t", "e", "n", "c", "e", "s">>
            THEN /\ native' =
                      [native EXCEPT !.autocapitalizationType = "Sentences"]
                 /\ Returns("set_autocapitalization_type", value, PyNone)
            ELSE IF lower(value.s) =
                      <<"a", "l", "l", "c", "h", "a", "r", "a", "c", "t", "e",
                        "r", "s">>
            THEN /\ native' =
                      [native EXCEPT !.autocapitalizationType = "AllCharacters"]
                 /\ Returns("set_autocapitalization_type", value, PyNone)
            ELSE /\ Raises("set_autocapitalization_type", value, "ValueError")
                 /\ UNCHANGED native
       ELSE /\ Raises("set_autocapitalization_type", value, "ValueError")
            /\ UNCHANGED native
    /\ UNCHANGED <<adapter, error_label, placeholder_label, intrinsic>>

TextInput_set_inlineprediction_type(value) ==
    /\ adapter = "TextInput"
    /\ calls' = <<>>
    /\ IF isinstance(value, "str")
       THEN IF lower(value.s) = <<"y", "e", "s">>
            THEN /\ native' = [native EXCEPT !.inlinePredictionType = "Yes"]
                 /\ Returns("set_inlineprediction_type", value, PyNone)
            ELSE IF lower(value.s) = <<"n", "o">>
            THEN /\ native' = [native EXCEPT !.inlinePredictionType = "No"]
                 /\ Returns("set_inlineprediction_type", value, PyNone)
            ELSE IF lower(value.s) = <<"d", "e", "f", "a", "u", "l", "t">>
            THEN /\ native' = [native EXCEPT !.inlinePredictionType = "Default"]
                 /\ Returns("set_inlineprediction_type", value, PyNone)
            ELSE /\ Raises("set_inlineprediction_type", value, "ValueError")
                 /\ UNCHANGED native
       ELSE /\ Raises("set_inlineprediction_type", value, "ValueError")
            /\ UNCHANGED native
    /\ UNCHANGED <<adapter, error_label, placeholder_label, intrinsic>>

(***************************************************************************)
(* TogaMultilineTextView: the delegate callbacks of the multi-line view.  *)
(* UIKit delivers begin-editing when the view becomes first responder,    *)
(* did-change after the user changed the text, and end-editing when it    *)
(* resigns.                                                                *)
(***************************************************************************)
textViewDidBeginEditing_ ==
    /\ adapter = "MultilineTextInput"
    /\ native.editable /\ ~native.isFirstResponder
    /\ native' = [native EXCEPT !.isFirstResponder = TRUE]
    /\ placeholder_label' = [placeholder_label EXCEPT !.hidden = TRUE]
    /\ calls' = <<>>
    /\ Returns("textViewDidBeginEditing_", PyNone, PyNone)
    /\ UNCHANGED <<adapter, error_label, intrinsic>>

\* end-editing as it would be with the test of the text length inverted
textViewDidEndEditing_inverted ==
    /\ adapter = "MultilineTextInput"
    /\ native.isFirstResponder
    /\ native' = [native EXCEPT !.isFirstResponder = FALSE]
    /\ placeholder_label' =
         [placeholder_label EXCEPT !.hidden = len(native.text) = 0]
    /\ calls' = <<>>
    /\ Returns("textViewDidEndEditing_", PyNone, PyNone)
    /\ UNCHANGED <<adapter, error_label, intrinsic>>

textViewDidEndEditing_ ==
    /\ adapter = "MultilineTextInput"
    /\ native.isFirstResponder
    /\ native' = [native EXCEPT !.isFirstResponder = FALSE]
    /\ placeholder_label' =
         [placeholder_label EXCEPT !.hidden = len(native.text) > 0]
    /\ calls' = <<>>
    /\ Returns("textViewDidEndEditing_", PyNone, PyNone)
    /\ UNCHANGED <<adapter, error_label, intrinsic>>

textViewDidChange_(typed) ==
    /\ adapter = "MultilineTextInput"
    /\ native.isFirstResponder /\ NSString(typed) # native.text
    /\ native' = [native EXCEPT !.text = NSString(typed)]
    /\ calls' = <<InterfaceCall("on_change")>>
    /\ Returns("textViewDidChange_", PyNone, PyNone)
    /\ UNCHANGED <<adapter, error_label, placeholder_label, intrinsic>>

\* A touch outside the view resigns first responder, and UIKit then delivers
\* end-editing to the delegate within the same call.
pointInside_withEvent_(point_inside) ==
    /\ adapter = "MultilineTextInput"
    /\ calls' = <<>>
    /\ IF ~point_inside /\ native.isFirstResponder
       THEN /\ native' = [native EXCEPT !.isFirstResponder = FALSE]
            /\ placeholder_label' =
                 [placeholder_label EXCEPT !.hidden = len(native.text) > 0]
       ELSE UNCHANGED <<native, placeholder_label>>
    /\ Returns("pointInside_withEvent_", PyBool(point_inside),
               PyBool(point_inside))
    /\ UNCHANGED <<adapter, error_label, intrinsic>>

(***************************************************************************)
(* MultilineTextInput: the multi-line adapter.                             *)
(***************************************************************************)
MultilineTextInput_get_placeholder ==
    /\ adapter = "MultilineTextInput"
    /\ calls' = <<>>
    /\ Returns("get_placeholder", PyNone, PyStr(str(placeholder_label.text)))
    /\ UNCHANGED widget

MultilineTextInput_set_placeholder(value) ==
    /\ adapter = "MultilineTextInput"
    /\ placeholder_label' = [placeholder_label EXCEPT !.text = NSString(value)]
    /\ calls' = <<>>
    /\ Returns("set_placeholder", PyStr(value), PyNone)
    /\ UNCHANGED <<adapter, native, error_label, intrinsic>>

MultilineTextInput_get_readonly ==
    /\ adapter = "MultilineTextInput"
    /\ calls' = <<>>
    /\ Returns("get_readonly", PyNone, PyBool(~native.editable))
    /\ UNCHANGED widget

MultilineTextInput_set_readonly(value) ==
    /\ adapter = "MultilineTextInput"
    /\ native' = [native EXCEPT !.editable = ~value]
    /\ calls' = <<>>
    /\ Returns("set_readonly", PyBool(value), PyNone)
    /\ UNCHANGED <<adapter, error_label, placeholder_label, intrinsic>>

MultilineTextInput_get_value ==
    /\ adapter = "MultilineTextInput"
    /\ calls' = <<>>
    /\ Returns("get_value", PyNone, PyStr(str(native.text)))
    /\ UNCHANGED widget

\* set_value as it would be with the focus state left out of the overlay's
\* visibility
MultilineTextInput_set_value_ignoring_focus(value) ==
    /\ adapter = "MultilineTextInput"
    /\ native' = [native EXCEPT !.text = NSString(value)]
    /\ placeholder_label' =
         [placeholder_label EXCEPT !.hidden = len(native'.text) > 0]
    /\ calls' = <<InterfaceCall("on_change")>>
    /\ Returns("set_value", PyStr(value), PyNone)
    /\ UNCHANGED <<adapter, error_label, intrinsic>>

MultilineTextInput_set_value(value) ==
    /\ adapter = "MultilineTextInput"
    /\ native' = [native EXCEPT !.text = NSString(value)]
    /\ placeholder_label' =
         [placeholder_label EXCEPT
            !.hidden = has_focus \/ len(native'.text) > 0]
    /\ calls' = <<InterfaceCall("on_change")>>
    /\ Returns("set_value", PyStr(value), PyNone)
    /\ UNCHANGED <<adapter, error_label, intrinsic>>

MultilineTextInput_set_color(value) ==
    /\ adapter = "MultilineTextInput"
    /\ native' = [native EXCEPT !.textColor = native_color(value)]
    /\ placeholder_label' =
         [placeholder_label EXCEPT !.textColor = native_color(value)]
    /\ calls' = <<>>
    /\ Returns("set_color", PyObject(value), PyNone)
    /\ UNCHANGED <<adapter, error_label, intrinsic>>

MultilineTextInput_set_text_align(value) ==
    /\ adapter = "MultilineTextInput"
    /\ native' = [native EXCEPT !.textAlignment = NSTextAlignment(value)]
    /\ calls' = <<>>
    /\ Returns("set_text_align", PyStr(value), PyNone)
    /\ UNCHANGED <<adapter, error_label, placeholder_label, intrinsic>>

MultilineTextInput_set_font(font) ==
    /\ adapter = "MultilineTextInput"
    /\ native' = [native EXCEPT !.font = font]
    /\ placeholder_label' = [placeholder_label EXCEPT !.font = font]
    /\ calls' = <<>>
    /\ Returns("set_font", PyObject(font), PyNone)
    /\ UNCHANGED <<adapter, error_label, intrinsic>>

MultilineTextInput_rehint ==
    /\ adapter = "MultilineTextInput"
    /\ intrinsic' = [width |-> "at_least(_MIN_WIDTH)",
                     height |-> "at_least(_MIN_HEIGHT)"]
    /\ calls' = <<>>
    /\ Returns("rehint", PyNone, PyNone)
    /\ UNCHANGED <<adapter, native, error_label, placeholder_label>>

scroll_to_bottom ==
    /\ adapter = "MultilineTextInput"
    /\ calls' = <<NativeScroll(NSRange(len(native.text) - 1, 1))>>
    /\ Returns("scroll_to_bottom", PyNone, PyNone)
    /\ UNCHANGED widget

scroll_to_top ==
    /\ adapter = "MultilineTextInput"
    /\ calls' = <<NativeScroll(NSRange(0, 0))>>
    /\ Returns("scroll_to_top", PyNone, PyNone)
    /\ UNCHANGED widget

\* set_autocorrect as it would be assigning by truth value before the type
\* check
MultilineTextInput_set_autocorrect_assign_first(value) ==
    /\ adapter = "MultilineTextInput"
    /\ calls' = <<>>
    /\ IF value.b \/ value.t = "int" \/ (value.t = "str" /\ Len(value.s) > 0)
       THEN native' = [native EXCEPT !.autocorrectionType = "Yes"]
       ELSE native' = [native EXCEPT !.autocorrectionType = "No"]
    /\ IF isinstance(value, "bool")
       THEN Returns("set_autocorrect", value, PyNone)
       ELSE Raises("set_autocorrect", value, "ValueError")
    /\ UNCHANGED <<adapter, error_label, placeholder_label, intrinsic>>

MultilineTextInput_set_autocorrect(value) ==
    /\ adapter = "MultilineTextInput"
    /\ calls' = <<>>
    /\ IF isinstance(value, "bool")
       THEN /\ IF value.b
               THEN native' = [native EXCEPT !.autocorrectionType = "Yes"]
               ELSE native' = [native EXCEPT !.autocorrectionType = "No"]
            /\ Returns("set_autocorrect", value, PyNone)
       ELSE /\ Raises("set_autocorrect", value, "ValueError")
            /\ UNCHANGED native
    /\ UNCHANGED <<adapter, error_label, placeholder_label, intrinsic>>

MultilineTextInput_get_autocorrect ==
    /\ adapter = "MultilineTextInput"
    /\ calls' = <<>>
    /\ IF native.autocorrectionType = "Yes"
       THEN Returns("get_autocorrect", PyNone, PyBool(TRUE))
       ELSE Returns("get_autocorrect", PyNone, PyBool(FALSE))
    /\ UNCHANGED widget

MultilineTextInput_set_spellchecker(value) ==
    /\ adapter = "MultilineTextInput"
    /\ calls' = <<>>
    /\ IF isinstance(value, "bool")
       THEN /\ IF value.b
               THEN native' = [native EXCEPT !.spellCheckingType = "Yes"]
               ELSE native' = [native EXCEPT !.spellCheckingType = "No"]
            /\ Returns("set_spellchecker", value, PyNone)
       ELSE /\ Raises("set_spellchecker", value, "ValueError")
            /\ UNCHANGED native
    /\ UNCHANGED <<adapter, error_label, placeholder_label, intrinsic>>

\* get_spellchecker as it would be reading the autocorrection setting
MultilineTextInput_get_spellchecker_of_autocorrect ==
    /\ adapter = "MultilineTextInput"
    /\ calls' = <<>>
    /\ IF native.autocorrectionType = "Yes"
       THEN Returns("get_spellchecker", PyNone, PyBool(TRUE))
       ELSE Returns("get_spellchecker", PyNone, PyBool(FALSE))
    /\ UNCHANGED widget

MultilineTextInput_get_spellchecker ==
    /\ adapter = "MultilineTextInput"
    /\ calls' = <<>>
    /\ IF native.spellCheckingType = "Yes"
       THEN Returns("get_spellchecker", PyNone, PyBool(TRUE))
       ELSE Returns("get_spellchecker", PyNone, PyBool(FALSE))
    /\ UNCHANGED widget

MultilineTextInput_set_autocapitalization_type(value) ==
    /\ adapter = "MultilineTextInput"
    /\ calls' = <<>>
    /\ IF isinstance(value, "str")
       THEN IF lower(value.s) = <<"n", "o", "n", "e">>
            THEN /\ native' = [native EXCEPT !.autocapitalizationType = "none"]
                 /\ Returns("set_autocapitalization_type", value, PyNone)
            ELSE IF lower(value.s) = <<"w", "o", "r", "d", "s">>
            THEN /\ native' = [native EXCEPT !.autocapitalizationType = "Words"]
                 /\ Returns("set_autocapitalization_type", value, PyNone)
            ELSE IF lower(value.s) =
                      <<"s", "e", "n", "t", "e", "n", "c", "e", "s">>
            THEN /\ native' =
                      [native EXCEPT !.autocapitalizationType = "Sentences"]
                 /\ Returns("set_autocapitalization_type", value, PyNone)
            ELSE IF lower(value.s) =
                      <<"a", "l", "l", "c", "h", "a", "r", "a", "c", "t", "e",
                        "r", "s">>
            THEN /\ native' =
                      [native EXCEPT !.autocapitalizationType = "AllCharacters"]
                 /\ Returns("set_autocapitalization_type", value, PyNone)
            ELSE /\ Raises("set_autocapitalization_type", value, "ValueError")
                 /\ UNCHANGED native
       ELSE /\ Raises("set_autocapitalization_type", value, "ValueError")
            /\ UNCHANGED native
    /\ UNCHANGED <<adapter, error_label, placeholder_label, intrinsic>>

MultilineTextInput_set_inlineprediction_type(value) ==
    /\ adapter = "MultilineTextInput"
    /\ calls' = <<>>
    /\ IF isinstance(value, "str")
       THEN IF lower(value.s) = <<"y", "e", "s">>
            THEN /\ native' = [native EXCEPT !.inlinePredictionType = "Yes"]
                 /\ Returns("set_inlineprediction_type", value, PyNone)
            ELSE IF lower(value.s) = <<"n", "o">>
            THEN /\ native' = [native EXCEPT !.inlinePredictionType = "No"]
                 /\ Returns("set_inlineprediction_type", value, PyNone)
            ELSE IF lower(value.s) = <<"d", "e", "f", "a", "u", "l", "t">>
            THEN /\ native' = [native EXCEPT !.inlinePredictionType = "Default"]
                 /\ Returns("set_inlineprediction_type", value, PyNone)
            ELSE /\ Raises("set_inlineprediction_type", value, "ValueError")
                 /\ UNCHANGED native
       ELSE /\ Raises("set_inlineprediction_type", value, "ValueError")
            /\ UNCHANGED native
    /\ UNCHANGED <<adapter, error_label, placeholder_label, intrinsic>>

(***************************************************************************)
(* Observers.  They read what an operation did and change nothing of it.   *)
(***************************************************************************)
ObserveError ==
    error_set' = CASE last'.op = "set_error" -> TRUE
                   [] last'.op = "clear_error" -> FALSE
                   [] OTHER -> error_set

ObserveTrace ==
    /\ events' = Append(events, last'.op)
    /\ callbacks' = callbacks \o [i \in 1..Len(calls') |-> calls'[i].name]

\* one operation, observed
Step(Operation) ==
    /\ Operation
    /\ ObserveError
    /\ UNCHANGED <<events, callbacks>>

\* one operation, observed and recorded in the trace
TracedStep(Operation) ==
    /\ Len(events) < MaxTrace
    /\ Operation
    /\ ObserveError
    /\ ObserveTrace

(***************************************************************************)
(* The whole program: UIKit delivers an event to the delegate, or the      *)
(* interface calls a method of the adapter, in any order.                  *)
(***************************************************************************)
Next ==
    \/ Step(textFieldDidBeginEditing_)
    \/ \E typed \in Texts : Step(textFieldDidChange_(typed))
    \/ Step(textFieldDidEndEditing_)
    \/ Step(textFieldShouldReturn_)
    \/ Step(TextInput_get_readonly)
    \/ \E value \in BOOLEAN : Step(TextInput_set_readonly(value))
    \/ Step(TextInput_get_placeholder)
    \/ \E value \in Placeholders : Step(TextInput_set_placeholder(value))
    \/ Step(TextInput_get_value)
    \/ \E value \in Texts : Step(TextInput_set_value(value))
    \/ \E value \in Alignments : Step(TextInput_set_text_align(value))
    \/ \E color \in Colors : Step(TextInput_set_color(color))
    \/ \E font \in Fonts : Step(TextInput_set_font(font))
    \/ Step(TextInput_rehint)
    \/ \E error_message \in Messages : Step(TextInput_set_error(error_message))
    \/ Step(TextInput_clear_error)
    \/ Step(TextInput_is_valid)
    \/ \E value \in BoolArgs : Step(TextInput_set_autocorrect(value))
    \/ Step(TextInput_get_autocorrect)
    \/ \E value \in BoolArgs : Step(TextInput_set_spellchecker(value))
    \/ Step(TextInput_get_spellchecker)
    \/ \E value \in CapArgs :
        Step(TextInput_set_autocapitalization_type(value))
    \/ \E value \in PredictionArgs :
        Step(TextInput_set_inlineprediction_type(value))
    \/ Step(textViewDidBeginEditing_)
    \/ Step(textViewDidEndEditing_)
    \/ \E typed \in Texts : Step(textViewDidChange_(typed))
    \/ \E point_inside \in BOOLEAN : Step(pointInside_withEvent_(point_inside))
    \/ Step(MultilineTextInput_get_placeholder)
    \/ \E value \in Placeholders :
        Step(MultilineTextInput_set_placeholder(value))
    \/ Step(MultilineTextInput_get_readonly)
    \/ \E value \in BOOLEAN : Step(MultilineTextInput_set_readonly(value))
    \/ Step(MultilineTextInput_get_value)
    \/ \E value \in Texts : Step(MultilineTextInput_set_value(value))
    \/ \E value \in Colors : Step(MultilineTextInput_set_color(value))
    \/ \E value \in Alignments : Step(MultilineTextInput_set_text_align(value))
    \/ \E font \in Fonts : Step(MultilineTextInput_set_font(font))
    \/ Step(MultilineTextInput_rehint)
    \/ Step(scroll_to_bottom)
    \/ Step(scroll_to_top)
    \/ \E value \in BoolArgs : Step(MultilineTextInput_set_autocorrect(value))
    \/ Step(MultilineTextInput_get_autocorrect)
    \/ \E value \in BoolArgs : Step(MultilineTextInput_set_spellchecker(value))
    \/ Step(MultilineTextInput_get_spellchecker)
    \/ \E value \in CapArgs :
        Step(MultilineTextInput_set_autocapitalization_type(value))
    \/ \E value \in PredictionArgs :
        Step(MultilineTextInput_set_inlineprediction_type(value))

Spec == Init /\ [][Next]_vars

(***************************************************************************)
(* The settings of a control are independent fields, so Spec is their      *)
(* product.  The specifications below each take the operations that touch  *)
(* one group of fields, in any order and from the same initial states.     *)
(***************************************************************************)
\* The single-line adapter: its events and every method but the flag setters.
NextTextInput ==
    \/ Step(textFieldDidBeginEditing_)
    \/ \E typed \in Texts : Step(textFieldDidChange_(typed))
    \/ Step(textFieldDidEndEditing_)
    \/ Step(textFieldShouldReturn_)
    \/ Step(TextInput_get_readonly)
    \/ \E value \in BOOLEAN : Step(TextInput_set_readonly(value))
    \/ Step(TextInput_get_placeholder)
    \/ \E value \in Placeholders : Step(TextInput_set_placeholder(value))
    \/ Step(TextInput_get_value)
    \/ \E value \in Texts : Step(TextInput_set_value(value))
    \/ \E value \in Alignments : Step(TextInput_set_text_align(value))
    \/ \E color \in Colors : Step(TextInput_set_color(color))
    \/ \E font \in Fonts : Step(TextInput_set_font(font))
    \/ Step(TextInput_rehint)
    \/ \E error_message \in Messages : Step(TextInput_set_error(error_message))
    \/ Step(TextInput_clear_error)
    \/ Step(TextInput_is_valid)

SpecTextInput == InitTextInput /\ [][NextTextInput]_vars

\* The single-line adapter whole: every event and every method, the flag
\* setters included, each with one accepted and one refused argument where it
\* takes one.
NextTextInputAll ==
    \/ Step(textFieldDidBeginEditing_)
    \/ \E typed \in {<<>>, <<"a">>} : Step(textFieldDidChange_(typed))
    \/ Step(textFieldDidEndEditing_)
    \/ Step(textFieldShouldReturn_)
    \/ Step(TextInput_get_readonly)
    \/ Step(TextInput_set_readonly(TRUE))
    \/ Step(TextInput_get_placeholder)
    \/ Step(TextInput_set_placeholder(<<"p">>))
    \/ Step(TextInput_get_value)
    \/ \E value \in {<<>>, <<"a">>} : Step(TextInput_set_value(value))
    \/ Step(TextInput_set_text_align(RIGHT))
    \/ \E color \in Colors : Step(TextInput_set_color(color))
    \/ \E font \in Fonts : Step(TextInput_set_font(font))
    \/ Step(TextInput_rehint)
    \/ \E error_message \in Messages : Step(TextInput_set_error(error_message))
    \/ Step(TextInput_clear_error)
    \/ Step(TextInput_is_valid)
    \/ \E value \in {PyBool(FALSE), PyNone} :
        Step(TextInput_set_autocorrect(value))
    \/ Step(TextInput_get_autocorrect)
    \/ \E value \in {PyBool(FALSE), PyInt} :
        Step(TextInput_set_spellchecker(value))
    \/ Step(TextInput_get_spellchecker)
    \/ \E value \in {PyStr(<<"N", "O", "N", "E">>), PyStr(<<>>)} :
        Step(TextInput_set_autocapitalization_type(value))
    \/ \E value \in {PyStr(<<"N", "o">>), PyBool(FALSE)} :
        Step(TextInput_set_inlineprediction_type(value))

SpecTextInputAll == InitTextInput /\ [][NextTextInputAll]_vars

\* The multi-line adapter: its events and every method but the flag setters.
NextMultiline ==
    \/ Step(textViewDidBeginEditing_)
    \/ Step(textViewDidEndEditing_)
    \/ \E typed \in Texts : Step(textViewDidChange_(typed))
    \/ \E point_inside \in BOOLEAN : Step(pointInside_withEvent_(point_inside))
    \/ Step(MultilineTextInput_get_placeholder)
    \/ \E value \in Placeholders :
        Step(MultilineTextInput_set_placeholder(value))
    \/ Step(MultilineTextInput_get_readonly)
    \/ \E value \in BOOLEAN : Step(MultilineTextInput_set_readonly(value))
    \/ Step(MultilineTextInput_get_value)
    \/ \E value \in Texts : Step(MultilineTextInput_set_value(value))
    \/ \E value \in Colors : Step(MultilineTextInput_set_color(value))
    \/ \E value \in Alignments : Step(MultilineTextInput_set_text_align(value))
    \/ \E font \in Fonts : Step(MultilineTextInput_set_font(font))
    \/ Step(MultilineTextInput_rehint)
    \/ Step(scroll_to_bottom)
    \/ Step(scroll_to_top)

SpecMultiline == InitMultiline /\ [][NextMultiline]_vars

\* The behaviour flags of both adapters, with the operations that change the
\* text value and the overlays.
NextFlags ==
    \/ \E value \in BoolArgs : Step(TextInput_set_autocorrect(value))
    \/ Step(TextInput_get_autocorrect)
    \/ \E value \in BoolArgs : Step(TextInput_set_spellchecker(value))
    \/ Step(TextInput_get_spellchecker)
    \/ \E value \in CapArgs :
        Step(TextInput_set_autocapitalization_type(value))
    \/ \E value \in PredictionArgs :
        Step(TextInput_set_inlineprediction_type(value))
    \/ \E value \in BoolArgs : Step(MultilineTextInput_set_autocorrect(value))
    \/ Step(MultilineTextInput_get_autocorrect)
    \/ \E value \in BoolArgs : Step(MultilineTextInput_set_spellchecker(value))
    \/ Step(MultilineTextInput_get_spellchecker)
    \/ \E value \in CapArgs :
        Step(MultilineTextInput_set_autocapitalization_type(value))
    \/ \E value \in PredictionArgs :
        Step(MultilineTextInput_set_inlineprediction_type(value))
    \/ \E value \in Texts : Step(TextInput_set_value(value))
    \/ \E value \in Texts : Step(MultilineTextInput_set_value(value))
    \/ \E error_message \in Messages : Step(TextInput_set_error(error_message))
    \/ Step(TextInput_clear_error)
    \/ Step(textViewDidBeginEditing_)
    \/ Step(textViewDidEndEditing_)

SpecFlags == Init /\ [][NextFlags]_vars

\* The text value of both adapters: the events and the value methods.
NextValue ==
    \/ Step(textFieldDidBeginEditing_)
    \/ \E typed \in Texts : Step(textFieldDidChange_(typed))
    \/ Step(textFieldDidEndEditing_)
    \/ Step(textFieldShouldReturn_)
    \/ Step(textViewDidBeginEditing_)
    \/ Step(textViewDidEndEditing_)
    \/ \E typed \in Texts : Step(textViewDidChange_(typed))
    \/ \E point_inside \in BOOLEAN : Step(pointInside_withEvent_(point_inside))
    \/ Step(TextInput_get_value)
    \/ \E value \in Texts : Step(TextInput_set_value(value))
    \/ Step(MultilineTextInput_get_value)
    \/ \E value \in Texts : Step(MultilineTextInput_set_value(value))
    \/ \E value \in BOOLEAN : Step(TextInput_set_readonly(value))
    \/ \E value \in BOOLEAN : Step(MultilineTextInput_set_readonly(value))

SpecValue == Init /\ [][NextValue]_vars

\* The single-line events and set_value, with the order of the operations
\* and of the callbacks the interface received recorded.
NextEvents ==
    \/ TracedStep(textFieldDidBeginEditing_)
    \/ \E typed \in Texts : TracedStep(textFieldDidChange_(typed))
    \/ TracedStep(textFieldDidEndEditing_)
    \/ TracedStep(textFieldShouldReturn_)
    \/ \E value \in Texts : TracedStep(TextInput_set_value(value))

SpecEvents == InitTextInput /\ [][NextEvents]_vars

(***************************************************************************)
(* The claims.                                                             *)
(***************************************************************************)
PlaceholderVisible == ~placeholder_label.hidden

TextIsEmpty == len(native.text) = 0

\* C1: on the multi-line adapter, in every state reached from create() by
\* any sequence of events and method calls, the placeholder overlay is
\* visible if and only if the text value is empty and the control is not
\* focused.
C1_PlaceholderVisibility ==
    adapter = "MultilineTextInput" =>
        (PlaceholderVisible <=> (TextIsEmpty /\ ~native.isFirstResponder))

\* C1's case: set_value("") ran while the control was focused, and the
\* overlay stayed hidden.
C1_Witness ==
    /\ adapter = "MultilineTextInput"
    /\ last.op = "set_value" /\ last.arg = PyStr(<<>>)
    /\ native.isFirstResponder
    /\ ~PlaceholderVisible

\* C2: on the multi-line adapter the placeholder overlay is visible right
\* after create(); a begin-editing event hides it; an end-editing event with
\* non-empty text leaves it hidden, and one with empty text makes it visible
\* again.
C2_PlaceholderAtEvents ==
    /\ InitMultiline => PlaceholderVisible
    /\ [][/\ last'.op = "textViewDidBeginEditing_" => ~PlaceholderVisible'
          /\ last'.op = "textViewDidEndEditing_" /\ ~TextIsEmpty' =>
                ~PlaceholderVisible /\ ~PlaceholderVisible'
          /\ last'.op = "textViewDidEndEditing_" /\ TextIsEmpty' =>
                ~PlaceholderVisible /\ PlaceholderVisible']_vars

\* C2's case: an end-editing event arrived with non-empty text and the
\* overlay is hidden.
C2_Witness ==
    /\ adapter = "MultilineTextInput"
    /\ last.op = "textViewDidEndEditing_"
    /\ ~TextIsEmpty
    /\ ~PlaceholderVisible

\* C9: on the multi-line adapter, for every text value including the empty
\* string, scroll_to_bottom() asks the native view for the one-character range
\* at the last character, whose start index lies in 0..len(text)-1 and is
\* never negative, and scroll_to_top() asks for the range starting at index
\* 0; neither changes the text value or the placeholder visibility.
C9_ScrollRanges ==
    [][/\ last'.op = "scroll_to_bottom" =>
            /\ Len(calls') = 1
            /\ calls'[1].on = "native"
            /\ calls'[1].range.length = 1
            /\ calls'[1].range.wrap = 0
            /\ calls'[1].range.location \in 0..(len(native.text) - 1)
            /\ calls'[1].range.location = len(native.text) - 1
       /\ last'.op = "scroll_to_top" =>
            /\ Len(calls') = 1
            /\ calls'[1].on = "native"
            /\ calls'[1].range.wrap = 0
            /\ calls'[1].range.location = 0
       /\ last'.op \in {"scroll_to_bottom", "scroll_to_top"} =>
            /\ native'.text = native.text
            /\ placeholder_label'.hidden = placeholder_label.hidden]_vars

\* C3: on the single-line adapter is_valid() returns false if and only if
\* set_error(msg) has been called, with any message including the empty
\* one, and no clear_error() has been called since; it is true right after
\* create(), and no other operation changes the error overlay's visibility.
C3_ErrorVisibility ==
    adapter = "TextInput" =>
        /\ error_label.hidden <=> ~error_set
        /\ last.op = "create" => error_label.hidden
        /\ last.op = "is_valid" => last.ret = PyBool(~error_set)

\* C3's case: is_valid() returned false after set_error.
C3_Witness ==
    /\ adapter = "TextInput"
    /\ last.op = "is_valid"
    /\ last.ret = PyBool(FALSE)
    /\ error_set

\* C7: on the single-line adapter, after set_text_align(a) the text's
\* alignment is a and the error indicator's alignment is LEFT when a is RIGHT
\* and RIGHT for every other a; the indicator's alignment is determined by
\* the last set_text_align call alone, whatever ran since.
C7_IndicatorAlignment ==
    adapter = "TextInput" =>
        /\ last.op = "set_text_align" =>
             /\ last.arg = PyStr(LEFT) =>
                  native.textAlignment = "NSTextAlignmentLeft"
             /\ last.arg = PyStr(RIGHT) =>
                  native.textAlignment = "NSTextAlignmentRight"
             /\ last.arg = PyStr(CENTER) =>
                  native.textAlignment = "NSTextAlignmentCenter"
             /\ last.arg = PyStr(JUSTIFY) =>
                  native.textAlignment = "NSTextAlignmentJustified"
        /\ native.textAlignment = "NSTextAlignmentNatural" =>
             error_label.textAlignment = "NSTextAlignmentNatural"
        /\ native.textAlignment = "NSTextAlignmentRight" =>
             error_label.textAlignment = "NSTextAlignmentLeft"
        /\ native.textAlignment \in {"NSTextAlignmentLeft",
                                     "NSTextAlignmentCenter",
                                     "NSTextAlignmentJustified"} =>
             error_label.textAlignment = "NSTextAlignmentRight"

\* C7's case: set_text_align(RIGHT) ran and the indicator is left-aligned.
C7_Witness ==
    /\ adapter = "TextInput"
    /\ last.op = "set_text_align" /\ last.arg = PyStr(RIGHT)
    /\ error_label.textAlignment = "NSTextAlignmentLeft"

\* the one callback the claim names for each operation of the single-line
\* control that reaches the interface
ExpectedCallback(op) ==
    CASE op = "textFieldDidBeginEditing_" -> "on_gain_focus"
      [] op = "textFieldDidChange_" -> "_value_changed"
      [] op = "textFieldDidEndEditing_" -> "on_lose_focus"
      [] op = "textFieldShouldReturn_" -> "on_confirm"
      [] op = "set_value" -> "_value_changed"

\* C8: on the single-line adapter each native event invokes exactly one
\* interface callback and no other (focus-gain on_gain_focus, text-changed
\* the value-changed hook, focus-loss on_lose_focus, return-key on_confirm),
\* the return-key handler returns true in every state, and the callbacks
\* reach the interface in the order in which the events arrive.
C8_EventForwarding ==
    /\ Len(callbacks) = Len(events)
    /\ \A i \in 1..Len(events) : callbacks[i] = ExpectedCallback(events[i])
    /\ last.op \in {"textFieldDidBeginEditing_", "textFieldDidChange_",
                    "textFieldDidEndEditing_", "textFieldShouldReturn_"} =>
         calls = <<InterfaceCall(ExpectedCallback(last.op))>>
    /\ last.op = "textFieldShouldReturn_" => last.ret = PyBool(TRUE)

\* C8's case: focus-gain, text-changed, return-key and focus-loss arrived in
\* this order and the interface received the four callbacks.
C8_Witness ==
    /\ events = <<"textFieldDidBeginEditing_", "textFieldDidChange_",
                  "textFieldShouldReturn_", "textFieldDidEndEditing_">>
    /\ Len(callbacks) = Len(events)

\* C4: on either adapter one call set_value(v) triggers exactly one change
\* notification on the interface (the value-changed hook on the single-line
\* adapter, on_change() on the multi-line adapter), and a get_value() that
\* follows returns v.
C4_SetValueNotifiesOnce ==
    [][/\ last'.op = "set_value" /\ adapter = "TextInput" =>
            calls' = <<InterfaceCall("_value_changed")>>
       /\ last'.op = "set_value" /\ adapter = "MultilineTextInput" =>
            calls' = <<InterfaceCall("on_change")>>
       /\ last.op = "set_value" /\ last'.op = "get_value" =>
            last'.ret = last.arg]_vars

\* C4's case: set_value("ab") ran on the multi-line adapter, one notification
\* went out and the native control holds "ab".
C4_Witness ==
    /\ adapter = "MultilineTextInput"
    /\ last.op = "set_value" /\ last.arg = PyStr(<<"a", "b">>)
    /\ Len(calls) = 1
    /\ str(native.text) = <<"a", "b">>

\* the mode the claim gives each sample argument: the case-insensitive
\* spellings of the four names, and "ValueError" for everything else
ExpectedCapitalization(value) ==
    CASE value = PyStr(<<"n", "o", "n", "e">>) -> "none"
      [] value = PyStr(<<"N", "O", "N", "E">>) -> "none"
      [] value = PyStr(<<"W", "o", "r", "d", "s">>) -> "Words"
      [] value = PyStr(<<"s", "e", "n", "t", "e", "n", "c", "e", "s">>)
           -> "Sentences"
      [] value = PyStr(<<"A", "l", "l", "C", "h", "a", "r", "a", "c", "t",
                         "e", "r", "s">>) -> "AllCharacters"
      [] OTHER -> "ValueError"

\* C5: on either adapter set_autocapitalization_type(v) succeeds and sets
\* the native autocapitalization mode to the matching one of none, words,
\* sentences and all-characters when v is a string equal to one of the four
\* names ignoring case; for any other string and any non-string value it
\* fails with a ValueError.
C5_Autocapitalization ==
    last.op = "set_autocapitalization_type" =>
        IF ExpectedCapitalization(last.arg) = "ValueError"
        THEN last.raised = "ValueError"
        ELSE /\ last.raised = ""
             /\ native.autocapitalizationType =
                    ExpectedCapitalization(last.arg)

\* C5's case: set_autocapitalization_type("NONE") ran on the single-line
\* adapter and the mode is none.
C5_Witness ==
    /\ adapter = "TextInput"
    /\ last.op = "set_autocapitalization_type"
    /\ last.arg = PyStr(<<"N", "O", "N", "E">>)
    /\ native.autocapitalizationType = "none"

\* C6: on either adapter, for every boolean b, set_autocorrect(b) followed
\* by get_autocorrect() returns b and set_spellchecker(b) followed by
\* get_spellchecker() returns b; right after create() both getters return
\* true.
C6_FlagRoundTrip ==
    [][/\ last.op = "set_autocorrect" /\ last.raised = ""
            /\ last'.op = "get_autocorrect" => last'.ret = last.arg
       /\ last.op = "set_spellchecker" /\ last.raised = ""
            /\ last'.op = "get_spellchecker" => last'.ret = last.arg
       /\ last.op = "create"
            /\ last'.op \in {"get_autocorrect", "get_spellchecker"} =>
               last'.ret = PyBool(TRUE)]_vars

\* C6's case: get_spellchecker() returned false on the multi-line adapter
\* while autocorrection is on, which takes a set_spellchecker(False).
C6_Witness ==
    /\ adapter = "MultilineTextInput"
    /\ last.op = "get_spellchecker"
    /\ last.ret = PyBool(FALSE)
    /\ native.autocorrectionType = "Yes"

FlagSetters ==
    {"set_autocorrect", "set_spellchecker", "set_autocapitalization_type",
     "set_inlineprediction_type"}

\* C10: on either adapter a call to one of the four behaviour-flag setters
\* changes at most its own native setting and leaves the other three
\* unchanged; a call that fails with a ValueError leaves all four settings,
\* the text value and the overlay visibility unchanged.
C10_FlagFrame ==
    [][/\ last'.op \in FlagSetters \ {"set_autocorrect"} =>
            native'.autocorrectionType = native.autocorrectionType
       /\ last'.op \in FlagSetters \ {"set_spellchecker"} =>
            native'.spellCheckingType = native.spellCheckingType
       /\ last'.op \in FlagSetters \ {"set_autocapitalization_type"} =>
            native'.autocapitalizationType = native.autocapitalizationType
       /\ last'.op \in FlagSetters \ {"set_inlineprediction_type"} =>
            native'.inlinePredictionType = native.inlinePredictionType
       /\ last'.op \in FlagSetters /\ last'.raised = "ValueError" =>
            /\ native' = native
            /\ error_label' = error_label
            /\ placeholder_label' = placeholder_label]_vars

\* C10's case: a flag setter failed on the multi-line adapter while
\* autocorrection was off, the text non-empty and the overlay hidden.
C10_Witness ==
    /\ adapter = "MultilineTextInput"
    /\ last.op \in FlagSetters /\ last.raised = "ValueError"
    /\ native.autocorrectionType = "No"
    /\ ~TextIsEmpty
    /\ ~PlaceholderVisible

====
